---- MODULE Spec2Model ----
(***************************************************************************)
(* Automation contracts of typescript-eda/domain: the capability and       *)
(* contract entities, their validation reports, their "with-" updates and  *)
(* their JSON round trips; the Ports registry, value-object equality and   *)
(* the @listen decorator beside them.                                      *)
(*                                                                         *)
(* Conventions.  A JavaScript value is a record [k, s, n]: k is the value's*)
(* kind, s the characters of a string, n a number (or 0/1 of a boolean).   *)
(* An optional field is a record [def, v]; def = FALSE is undefined.  A    *)
(* plain object (a Record<string, X>) is the sequence of its own           *)
(* enumerable entries [key, val] in insertion order, which is the order of *)
(* Object.entries for keys that are not array indices.  An error or        *)
(* warning message is a record [msg, name, a, b, num, list, sel, sub]: msg *)
(* is the template of the message and the other fields are what the        *)
(* template interpolates (sub holds the messages that join(', ') folds     *)
(* into one).  A Date is its number of milliseconds.                       *)
(***************************************************************************)
EXTENDS Integers, Sequences, FiniteSets, TLC

VARIABLES
    cap,        \* the capability under test (its props)
    args,       \* the argument mapping of the last validateParameters call
    result,     \* what the last call on the capability returned or threw
    heap,       \* plain objects by reference: capability and workflow maps
    contracts,  \* the contract objects created so far (their props)
    now,        \* the clock read by new Date()
    call,       \* the last contract operation: its name, receiver and result
    report,     \* what the last Contract.validate() returned
    snapshots,  \* each contract object's fields and maps when it was created
    ports,      \* Ports.ports: the static Map of port name to implementation
    history,    \* the calls made on Ports so far, oldest first
    objects,    \* the value objects of the last equals() call and its result
    listeners,  \* the 'listeners' metadata Reflect.defineMetadata attached
    decorations \* the @listen applications made so far, oldest first

\* The state of the listener tables
listenVars == <<listeners, decorations>>

\* The state of the supporting abstractions: the Ports registry, the value
\* objects and the listener tables
supportVars == <<ports, history, objects, listeners, decorations>>

vars == <<cap, args, result, heap, contracts, now, call, report, snapshots,
          ports, history, objects, listeners, decorations>>

(***************************************************************************)
(* JavaScript values                                                       *)
(***************************************************************************)
Str(s)    == [k |-> "string",    s |-> s,    n |-> 0]
Num(n)    == [k |-> "number",    s |-> <<>>, n |-> n]
Bool(b)   == [k |-> "boolean",   s |-> <<>>, n |-> IF b THEN 1 ELSE 0]
Obj       == [k |-> "object",    s |-> <<>>, n |-> 0]
Arr       == [k |-> "array",     s |-> <<>>, n |-> 0]
Null      == [k |-> "null",      s |-> <<>>, n |-> 0]
Undefined == [k |-> "undefined", s |-> <<>>, n |-> 0]

\* typeof paramValue
TypeOf(v) == IF v.k \in {"array", "null"} THEN "object" ELSE v.k

\* Array.isArray(paramValue)
IsArray(v) == v.k = "array"

\* An optional field: present with value v, or undefined.
Some(v) == [def |-> TRUE, v |-> v]
None    == [def |-> FALSE]

Range(s) == {s[i] : i \in DOMAIN s}

Min(S) == CHOOSE x \in S : \A y \in S : x <= y

RECURSIVE Concat(_)
Concat(ss) == IF ss = <<>> THEN <<>> ELSE Head(ss) \o Concat(Tail(ss))

(***************************************************************************)
(* Plain objects: own entries, with Object.prototype behind them           *)
(***************************************************************************)
\* The property names every plain object inherits from Object.prototype,
\* among the names the model uses ("constructor", "valueOf", ... are others).
ObjectPrototypeKeys == {"toString", "__proto__"}

OwnKeys(o) == {o[i].key : i \in DOMAIN o}

\* Object.keys(o), in order
Keys(o) == [i \in DOMAIN o |-> o[i].key]

\* name in o: an own property or an inherited one
In(name, o) == name \in OwnKeys(o) \/ name \in ObjectPrototypeKeys

\* o[name] of an own property
Own(o, name) == o[Min({i \in DOMAIN o : o[i].key = name})].val

\* An assignment that adds an entry whether or not the key is already there
SetPropAppending(o, name, val) ==
    IF name = "__proto__" /\ name \notin OwnKeys(o) THEN o
    ELSE Append(o, [key |-> name, val |-> val])

\* o[name] = val: an own property is overwritten in place; otherwise
\* "__proto__" is the accessor of Object.prototype, so the assignment
\* replaces the prototype and adds no own property; any other name is
\* added after the properties there are.  The prototype so installed (a
\* capability) is not kept: it carries none of the names the model looks up
\* beyond those of Object.prototype behind it.
SetProp(o, name, val) ==
    IF name \in OwnKeys(o)
    THEN [i \in DOMAIN o |-> IF o[i].key = name
                             THEN [key |-> name, val |-> val] ELSE o[i]]
    ELSE IF name = "__proto__" THEN o
    ELSE Append(o, [key |-> name, val |-> val])

\* delete o[name]
DeleteProp(o, name) == SelectSeq(o, LAMBDA e : e.key # name)

(***************************************************************************)
(* Regular expressions: literal characters, "^" first, "$" last; a "("     *)
(* opens a group that nothing closes, which new RegExp rejects.            *)
(***************************************************************************)
RegExpValid(p) == "(" \notin Range(p)

RegExpBody(p) ==
    LET from == IF Len(p) > 0 /\ p[1] = "^" THEN 2 ELSE 1
        to   == IF Len(p) > 0 /\ p[Len(p)] = "$" THEN Len(p) - 1 ELSE Len(p)
    IN  SubSeq(p, from, to)

\* new RegExp(p).test(v): a match anywhere in v unless the pattern anchors it
RegExpTest(p, v) ==
    LET body  == RegExpBody(p)
        atBeg == Len(p) > 0 /\ p[1] = "^"
        atEnd == Len(p) > 0 /\ p[Len(p)] = "$"
    IN  \E i \in 1..(Len(v) + 1) :
            /\ i + Len(body) - 1 <= Len(v)
            /\ SubSeq(v, i, i + Len(body) - 1) = body
            /\ atBeg => i = 1
            /\ atEnd => i + Len(body) - 1 = Len(v)

(***************************************************************************)
(* Messages                                                                *)
(***************************************************************************)
Msg(msg, name) ==
    [msg |-> msg, name |-> name, a |-> "", b |-> "", num |-> 0,
     list |-> <<>>, sel |-> <<>>, sub |-> <<>>]

(***************************************************************************)
(* ParameterDefinition and ParameterValidation                             *)
(***************************************************************************)
ParameterType == {"string", "number", "boolean", "object", "array", "file"}

NoNum == [def |-> FALSE, n |-> 0]
NumOf(n) == [def |-> TRUE, n |-> n]

\* A ParameterValidation with no rule set
NoRules ==
    [minLength |-> NoNum, maxLength |-> NoNum, pattern |-> None,
     minimum |-> NoNum, maximum |-> NoNum, enum |-> None]

ParameterDefinition(name, type, required, default, validation) ==
    [name |-> name, type |-> type, required |-> required,
     default |-> default, validation |-> validation]

(***************************************************************************)
(* SemanTestCapability                                                     *)
(***************************************************************************)
\* create(id, name, type, description, selector, options) at time t
CapabilityCreate(id, name, type, description, selector, options, t) ==
    [id |-> id, name |-> name, type |-> type, description |-> description,
     selector |-> selector,
     parameters |-> options.parameters,
     returnType |-> options.returnType,
     validation |-> options.validation,
     timeout |-> options.timeout,
     retries |-> options.retries,
     conditions |-> options.conditions,
     examples |-> options.examples,
     createdAt |-> t, updatedAt |-> t]

NoOptions ==
    [parameters |-> None, returnType |-> None, validation |-> None,
     timeout |-> None, retries |-> None, conditions |-> None,
     examples |-> None]

\* A bare selector string
StringSelector(s) == [isString |-> TRUE, primary |-> s, fallback |-> None]
\* A SelectorDefinition
SelectorDefinition(primary, fallback) ==
    [isString |-> FALSE, primary |-> primary, fallback |-> fallback]

getPrimarySelector(c) == c.selector.primary

getFallbackSelectors(c) ==
    IF c.selector.isString THEN <<>>
    ELSE IF c.selector.fallback.def THEN c.selector.fallback.v ELSE <<>>

getParameters(c) == IF c.parameters.def THEN c.parameters.v ELSE <<>>

getRequiredParameters(c) == SelectSeq(getParameters(c), LAMBDA p : p.required)

\* find(): the first parameter of that name, or undefined
getParameter(c, name) ==
    LET ps == getParameters(c)
        at == {i \in DOMAIN ps : ps[i].name = name}
    IN  IF at = {} THEN None ELSE Some(ps[Min(at)])

getConditions(c) == IF c.conditions.def THEN c.conditions.v ELSE <<>>

getExamples(c) == IF c.examples.def THEN c.examples.v ELSE <<>>

(***************************************************************************)
(* SemanTestCapability.validateParameters                                  *)
(***************************************************************************)
Thrown(error) ==
    [threw |-> TRUE, error |-> error, valid |-> FALSE,
     errors |-> <<>>, warnings |-> <<>>]

\* { valid: errors.length === 0, errors, warnings }
Returned(errors, warnings) ==
    [threw |-> FALSE, error |-> "", valid |-> Len(errors) = 0,
     errors |-> errors, warnings |-> warnings]

\* A number rule that an `&&` guards: undefined and 0 both skip the rule.
TruthyNum(x) == x.def /\ x.n # 0

\* A string rule that an `&&` guards: undefined and "" both skip the rule.
TruthyStr(x) == x.def /\ x.v # <<>>

\* enum.includes(value), on primitive members
Includes(list, value) == \E i \in DOMAIN list : list[i] = value

\* The loop over the required parameters
RequiredErrors(c, parameters) ==
    LET req == getRequiredParameters(c)
    IN  Concat([i \in DOMAIN req |->
            IF ~In(req[i].name, parameters)
            THEN <<Msg("Required parameter is missing", req[i].name)>>
            ELSE <<>>])

\* TypeErrors with the array case forgotten: typeof is compared for every type
TypeErrorsNoArrayCase(paramDef, paramName, paramValue) ==
    IF TypeOf(paramValue) # paramDef.type
    THEN <<[Msg("expected, got", paramName) EXCEPT
                !.a = paramDef.type, !.b = TypeOf(paramValue)]>>
    ELSE <<>>

\* Type validation of one provided argument
TypeErrors(paramDef, paramName, paramValue) ==
    LET expectedType == paramDef.type
        actualType   == TypeOf(paramValue)
    IN  IF expectedType = "array" /\ ~IsArray(paramValue)
        THEN <<[Msg("expected, got", paramName) EXCEPT
                    !.a = "array", !.b = actualType]>>
        ELSE IF expectedType # "array" /\ actualType # expectedType
        THEN <<[Msg("expected, got", paramName) EXCEPT
                    !.a = expectedType, !.b = actualType]>>
        ELSE <<>>

StringRuleErrors(validation, paramName, paramValue) ==
    IF TypeOf(paramValue) # "string" THEN <<>>
    ELSE
      (IF TruthyNum(validation.minLength)
          /\ Len(paramValue.s) < validation.minLength.n
       THEN <<[Msg("must be at least characters", paramName) EXCEPT
                   !.num = validation.minLength.n]>>
       ELSE <<>>)
      \o
      (IF TruthyNum(validation.maxLength)
          /\ Len(paramValue.s) > validation.maxLength.n
       THEN <<[Msg("must be at most characters", paramName) EXCEPT
                   !.num = validation.maxLength.n]>>
       ELSE <<>>)
      \o
      (IF TruthyStr(validation.pattern)
          /\ ~RegExpTest(validation.pattern.v, paramValue.s)
       THEN <<Msg("does not match required pattern", paramName)>>
       ELSE <<>>)

\* Number rules guarded the way the length rules are: a bound of 0 is skipped
NumberRuleErrorsSkippingZero(validation, paramName, paramValue) ==
    IF TypeOf(paramValue) # "number" THEN <<>>
    ELSE
      (IF TruthyNum(validation.minimum) /\ paramValue.n < validation.minimum.n
       THEN <<[Msg("must be at least", paramName) EXCEPT
                   !.num = validation.minimum.n]>>
       ELSE <<>>)
      \o
      (IF TruthyNum(validation.maximum) /\ paramValue.n > validation.maximum.n
       THEN <<[Msg("must be at most", paramName) EXCEPT
                   !.num = validation.maximum.n]>>
       ELSE <<>>)

\* The minimum and maximum rules of a number: `!== undefined` guards them
NumberRuleErrors(validation, paramName, paramValue) ==
    IF TypeOf(paramValue) # "number" THEN <<>>
    ELSE
      (IF validation.minimum.def /\ paramValue.n < validation.minimum.n
       THEN <<[Msg("must be at least", paramName) EXCEPT
                   !.num = validation.minimum.n]>>
       ELSE <<>>)
      \o
      (IF validation.maximum.def /\ paramValue.n > validation.maximum.n
       THEN <<[Msg("must be at most", paramName) EXCEPT
                   !.num = validation.maximum.n]>>
       ELSE <<>>)

EnumErrors(validation, paramName, paramValue) ==
    IF validation.enum.def /\ ~Includes(validation.enum.v, paramValue)
    THEN <<[Msg("must be one of", paramName) EXCEPT
                !.list = validation.enum.v]>>
    ELSE <<>>

\* The validation rules of one provided argument
RuleErrors(paramDef, paramName, paramValue) ==
    IF ~paramDef.validation.def THEN <<>>
    ELSE LET validation == paramDef.validation.v
         IN  StringRuleErrors(validation, paramName, paramValue)
             \o NumberRuleErrors(validation, paramName, paramValue)
             \o EnumErrors(validation, paramName, paramValue)

\* EntryErrors that stops at a type error instead of checking the rules too
EntryErrorsStopAtTypeError(c, e) ==
    LET paramDef == getParameter(c, e.key)
    IN  IF ~paramDef.def THEN <<>>
        ELSE IF TypeErrors(paramDef.v, e.key, e.val) # <<>>
        THEN TypeErrors(paramDef.v, e.key, e.val)
        ELSE RuleErrors(paramDef.v, e.key, e.val)

\* The errors one provided argument appends
EntryErrors(c, e) ==
    LET paramDef == getParameter(c, e.key)
    IN  IF ~paramDef.def THEN <<>>
        ELSE TypeErrors(paramDef.v, e.key, e.val)
             \o RuleErrors(paramDef.v, e.key, e.val)

\* A loop that passes over an unknown argument in silence
EntryWarningsSilent(c, e) == <<>>

\* The warning one provided argument appends
EntryWarnings(c, e) ==
    IF ~getParameter(c, e.key).def
    THEN <<Msg("Unknown parameter provided", e.key)>>
    ELSE <<>>

\* new RegExp(validation.pattern) throws a SyntaxError
EntryThrows(c, e) ==
    LET paramDef == getParameter(c, e.key)
    IN  /\ paramDef.def
        /\ paramDef.v.validation.def
        /\ TypeOf(e.val) = "string"
        /\ TruthyStr(paramDef.v.validation.v.pattern)
        /\ ~RegExpValid(paramDef.v.validation.v.pattern.v)

\* validateParameters(parameters): parameters is an optional plain object;
\* `in` and Object.entries throw a TypeError on undefined.
validateParameters(c, parameters) ==
    IF ~parameters.def THEN Thrown("TypeError")
    ELSE IF \E i \in DOMAIN parameters.v : EntryThrows(c, parameters.v[i])
    THEN Thrown("SyntaxError")
    ELSE LET entries == parameters.v
         IN  Returned(
                RequiredErrors(c, entries)
                \o Concat([i \in DOMAIN entries |-> EntryErrors(c, entries[i])]),
                Concat([i \in DOMAIN entries |-> EntryWarnings(c, entries[i])]))

(***************************************************************************)
(* SemanTestCapability.validate                                            *)
(***************************************************************************)
Max(S) == CHOOSE x \in S : \A y \in S : x >= y

\* selector.trim()
Trim(s) ==
    LET inked == {i \in DOMAIN s : s[i] # " "}
    IN  IF inked = {} THEN <<>> ELSE SubSeq(s, Min(inked), Max(inked))

\* selector.includes(sub)
StrIncludes(s, sub) ==
    \E i \in 1..(Len(s) - Len(sub) + 1) : SubSeq(s, i, i + Len(sub) - 1) = sub

\* The check without trim(): a selector of blanks passes
isValidCSSSelectorUntrimmed(selector) ==
    /\ Len(selector) > 0
    /\ ~StrIncludes(selector, <<">", "<">>)
    /\ ~StrIncludes(selector, <<"<", "<">>)

\* The basic syntax check of a selector
isValidCSSSelector(selector) ==
    /\ Len(Trim(selector)) > 0
    /\ ~StrIncludes(selector, <<">", "<">>)
    /\ ~StrIncludes(selector, <<"<", "<">>)

\* A check of the required fields that leaves the selector out
FieldErrorsWithoutSelector(c) ==
    (IF c.id = "" THEN <<Msg("Capability ID is required", "")>> ELSE <<>>)
    \o (IF c.name = ""
        THEN <<Msg("Capability name is required", "")>> ELSE <<>>)
    \o (IF c.description = ""
        THEN <<Msg("Capability description is required", "")>> ELSE <<>>)

\* The four required-field checks
FieldErrors(c) ==
    (IF c.id = "" THEN <<Msg("Capability ID is required", "")>> ELSE <<>>)
    \o (IF c.name = ""
        THEN <<Msg("Capability name is required", "")>> ELSE <<>>)
    \o (IF c.description = ""
        THEN <<Msg("Capability description is required", "")>> ELSE <<>>)
    \o (IF getPrimarySelector(c) = <<>>
        THEN <<Msg("Primary selector is required", "")>> ELSE <<>>)

\* The selector syntax check
SelectorWarnings(c) ==
    LET primarySelector   == getPrimarySelector(c)
        fallbackSelectors == getFallbackSelectors(c)
    IN  (IF primarySelector # <<>> /\ ~isValidCSSSelector(primarySelector)
         THEN <<Msg("Primary selector may not be valid CSS", "")>>
         ELSE <<>>)
        \o Concat([i \in DOMAIN fallbackSelectors |->
              IF ~isValidCSSSelector(fallbackSelectors[i])
              THEN <<[Msg("Fallback selector may not be valid CSS", "")
                         EXCEPT !.sel = fallbackSelectors[i]]>>
              ELSE <<>>])

\* The loop over the declared parameters
ParameterErrors(c) ==
    LET ps == getParameters(c)
    IN  Concat([i \in DOMAIN ps |->
          (IF \E j \in 1..(i - 1) : ps[j].name = ps[i].name
           THEN <<Msg("Duplicate parameter name", ps[i].name)>> ELSE <<>>)
          \o (IF ps[i].name = ""
              THEN <<Msg("Parameter name is required", "")>> ELSE <<>>)
          \o (IF ps[i].type = ""
              THEN <<Msg("Parameter type is required", ps[i].name)>>
              ELSE <<>>)])

\* The loop over the examples: each example's parameters are validated
ExampleErrors(c) ==
    LET exs == getExamples(c)
    IN  Concat([i \in DOMAIN exs |->
          LET paramValidation == validateParameters(c, exs[i].parameters)
          IN  IF ~paramValidation.valid
              THEN <<[Msg("Example", "") EXCEPT
                          !.num = i, !.sub = paramValidation.errors]>>
              ELSE <<>>])

ExampleWarnings(c) ==
    LET exs == getExamples(c)
    IN  Concat([i \in DOMAIN exs |->
          IF exs[i].description = ""
          THEN <<[Msg("Example is missing description", "") EXCEPT !.num = i]>>
          ELSE <<>>])

\* validate(): nothing catches what validateParameters throws on an example
validate(c) ==
    LET exs == getExamples(c)
        thrown == {i \in DOMAIN exs :
                      validateParameters(c, exs[i].parameters).threw}
    IN  IF thrown # {}
        THEN Thrown(validateParameters(c, exs[Min(thrown)].parameters).error)
        ELSE Returned(
                FieldErrors(c) \o ParameterErrors(c) \o ExampleErrors(c),
                SelectorWarnings(c) \o ExampleWarnings(c))

(***************************************************************************)
(* SemanTestCapability.toJSON / fromJSON                                   *)
(***************************************************************************)
\* Date.prototype.toISOString(): the seconds, then ".sssZ"
toISOString(t) == [seconds |-> t \div 1000, millis |-> t % 1000]

\* new Date(isoString)
NewDate(iso) == iso.seconds * 1000 + iso.millis

CapabilityToJSON(c) ==
    [id |-> c.id, name |-> c.name, type |-> c.type,
     description |-> c.description,
     selector |-> c.selector,
     parameters |-> Some(getParameters(c)),
     returnType |-> c.returnType,
     validation |-> c.validation,
     timeout |-> c.timeout,
     retries |-> c.retries,
     conditions |-> Some(getConditions(c)),
     examples |-> Some(getExamples(c)),
     createdAt |-> toISOString(c.createdAt),
     updatedAt |-> toISOString(c.updatedAt)]

CapabilityFromJSON(json) ==
    [id |-> json.id, name |-> json.name, type |-> json.type,
     description |-> json.description,
     selector |-> json.selector,
     parameters |-> json.parameters,
     returnType |-> json.returnType,
     validation |-> json.validation,
     timeout |-> json.timeout,
     retries |-> json.retries,
     conditions |-> json.conditions,
     examples |-> json.examples,
     createdAt |-> NewDate(json.createdAt),
     updatedAt |-> NewDate(json.updatedAt)]

(***************************************************************************)
(* SpecArgs: validateParameters over bounded capabilities and mappings     *)
(***************************************************************************)
MaxParams == 2
MaxArgs == 2

SeqsUpTo(S, n) == UNION {[1..m -> S] : m \in 0..n}

\* No method is decorated
ListenIdle ==
    /\ listeners = <<>>
    /\ decorations = <<>>

\* No port is registered, no value object is compared, no method decorated
SupportIdle ==
    /\ ports = <<>>
    /\ history = <<>>
    /\ objects = [op |-> "none"]
    /\ ListenIdle

\* The variables of the contract operations, while none has run
ContractsIdle ==
    /\ heap = <<>>
    /\ contracts = <<>>
    /\ now = 0
    /\ call = [op |-> "none"]
    /\ report = [op |-> "none"]
    /\ snapshots = <<>>
    /\ SupportIdle

EnumAOr1 == [NoRules EXCEPT !.enum = Some(<<Str(<<"a">>), Num(1)>>)]

\* The parameter definitions the capabilities are built from: every type,
\* required and optional, a default, an enum list, and a name that
\* Object.prototype also has.
ArgsParameterDefinitions ==
    {ParameterDefinition("user", t, FALSE, Undefined, None) : t \in ParameterType}
    \cup {ParameterDefinition("user", "string", TRUE, Undefined, None),
          ParameterDefinition("user", "number", TRUE, Num(1), None),
          ParameterDefinition("token", "string", TRUE, Undefined, None),
          ParameterDefinition("toString", "string", TRUE, Undefined, None),
          ParameterDefinition("user", "string", FALSE, Undefined, Some(EnumAOr1)),
          ParameterDefinition("user", "file", TRUE, Undefined, None)}

ArgsCapabilities ==
    {CapabilityCreate("cap-1", "login", "action", "Sign in",
                      StringSelector(<<"#", "a">>),
                      [NoOptions EXCEPT !.parameters = Some(ps)], 1500) :
        ps \in SeqsUpTo(ArgsParameterDefinitions, MaxParams)}

ArgValues ==
    {Str(<<"a">>), Str(<<"b">>), Num(1), Num(2), Bool(TRUE), Obj, Arr, Null}

ArgEntries ==
    {[key |-> "user", val |-> v] : v \in ArgValues}
    \cup {[key |-> k, val |-> Str(<<"a">>)] : k \in {"token", "toString", "extra"}}

\* Argument mappings: an object has each key once
ArgMappings ==
    {a \in SeqsUpTo(ArgEntries, MaxArgs) :
        \A i, j \in DOMAIN a : i # j => a[i].key # a[j].key}

InitArgs ==
    /\ cap \in ArgsCapabilities
    /\ args = None
    /\ result = [op |-> "none"]
    /\ ContractsIdle

\* A caller validates an argument mapping against the capability.  The call
\* reads the capability and changes nothing, so a behaviour makes one call.
CallValidateParameters(mappings) ==
    /\ result.op = "none"
    /\ \E a \in mappings :
          /\ args' = a
          /\ result' = [op |-> "validateParameters",
                        r |-> validateParameters(cap, a)]
    /\ UNCHANGED <<cap, heap, contracts, now, call, report,
                   snapshots, supportVars>>

\* The argument mappings as a caller passes them
GivenMappings == {Some(a) : a \in ArgMappings}

NextArgs == CallValidateParameters(GivenMappings)

SpecArgs == InitArgs /\ [][NextArgs]_vars

(***************************************************************************)
(* Properties of validateParameters (SpecArgs)                              *)
(***************************************************************************)
\* How many messages of a list satisfy Test
CountIf(list, Test(_)) == Cardinality({i \in DOMAIN list : Test(list[i])})

\* The declared parameters of the capability under test, as constructed
Declared == IF cap.parameters.def THEN cap.parameters.v ELSE <<>>

IsDeclared(name) == \E i \in DOMAIN Declared : Declared[i].name = name

\* The definition a name stands for: the first one declared with it
DeclaredAs(name) ==
    Declared[Min({i \in DOMAIN Declared : Declared[i].name = name})]

Validated == result.op = "validateParameters"

\* The entries of the mapping that was validated
Given == args.v

\* C3: validateParameters reports exactly one "Required parameter '<name>'
\* is missing" error for each required parameter whose name is absent from
\* the argument mapping, none for a required parameter whose name is
\* present, and valid=false whenever a required parameter is missing;
\* presence in the mapping is the sole criterion (a default does not count).
C3_RequiredParameters ==
    Validated =>
        LET MissingAs(name) ==
                {i \in DOMAIN Declared :
                    /\ Declared[i].required
                    /\ Declared[i].name = name
                    /\ name \notin OwnKeys(Given)}
            names == {Declared[i].name : i \in DOMAIN Declared}
        IN  /\ ~result.r.threw
            /\ \A name \in names :
                  CountIf(result.r.errors,
                          LAMBDA m : m = Msg("Required parameter is missing", name))
                  = Cardinality(MissingAs(name))
            /\ (\E name \in names : MissingAs(name) # {}) => ~result.r.valid

\* The runtime primitive kind of a value, as typeof names it
RuntimeKind(v) ==
    CASE v.k = "string"    -> "string"
      [] v.k = "number"    -> "number"
      [] v.k = "boolean"   -> "boolean"
      [] v.k = "undefined" -> "undefined"
      [] OTHER             -> "object"

IsTypeErrorFor(m, name) == m.msg = "expected, got" /\ m.name = name

IsEnumErrorFor(m, name) == m.msg = "must be one of" /\ m.name = name

HasEnum(name) ==
    /\ IsDeclared(name)
    /\ DeclaredAs(name).validation.def
    /\ DeclaredAs(name).validation.v.enum.def

IsUnknownWarningFor(m, name) ==
    m.msg = "Unknown parameter provided" /\ m.name = name

\* The entries of the mapping whose names are declared
KnownGiven == SelectSeq(Given, LAMBDA e : IsDeclared(e.key))

\* C15: for every provided argument whose name matches no declared
\* parameter, validateParameters emits exactly one warning naming the
\* argument and no error for it, so the errors are those of the mapping
\* without its unknown arguments, and unknown arguments alone never make
\* valid=false.
C15_UnknownArguments ==
    Validated =>
        /\ ~result.r.threw
        /\ \A i \in DOMAIN Given :
              ~IsDeclared(Given[i].key) =>
                 /\ CountIf(result.r.warnings,
                       LAMBDA m : IsUnknownWarningFor(m, Given[i].key)) = 1
                 /\ CountIf(result.r.errors,
                       LAMBDA m : m.name = Given[i].key) = 0
        /\ result.r.errors = validateParameters(cap, Some(KnownGiven)).errors
        /\ ( /\ \A i \in DOMAIN Given : ~IsDeclared(Given[i].key)
             /\ getRequiredParameters(cap) = <<>> )
           => result.r.valid

\* An undeclared argument was supplied next to a declared one that fails its
\* type check: one warning for the first, and the report is invalid for the
\* second alone
C15_Witness ==
    /\ Validated
    /\ Len(Given) = 2
    /\ ~IsDeclared(Given[1].key)
    /\ IsDeclared(Given[2].key)
    /\ ~result.r.valid
    /\ Len(result.r.errors) = 1
    /\ result.r.errors[1].name = Given[2].key
    /\ result.r.warnings = <<Msg("Unknown parameter provided", Given[1].key)>>

\* The missing-required errors, in parameter declaration order: one for each
\* required parameter whose name is not a key of the mapping
MissingRequiredErrors ==
    Concat([i \in DOMAIN Declared |->
        IF Declared[i].required /\ Declared[i].name \notin OwnKeys(Given)
        THEN <<Msg("Required parameter is missing", Declared[i].name)>>
        ELSE <<>>])

\* The errors of one provided argument: its type error, then its constraint
\* errors (an enum list is the one constraint these capabilities declare)
ArgumentErrors(e) ==
    IF ~IsDeclared(e.key) THEN <<>>
    ELSE LET type     == DeclaredAs(e.key).type
             mismatch == IF type = "array" THEN e.val.k # "array"
                         ELSE RuntimeKind(e.val) # type
             outside  == /\ HasEnum(e.key)
                         /\ e.val \notin
                               Range(DeclaredAs(e.key).validation.v.enum.v)
         IN  (IF mismatch
              THEN <<[Msg("expected, got", e.key) EXCEPT
                         !.a = type, !.b = RuntimeKind(e.val)]>>
              ELSE <<>>)
             \o (IF outside
                 THEN <<[Msg("must be one of", e.key) EXCEPT
                            !.list = DeclaredAs(e.key).validation.v.enum.v]>>
                 ELSE <<>>)

ArgumentWarnings(e) ==
    IF IsDeclared(e.key) THEN <<>>
    ELSE <<Msg("Unknown parameter provided", e.key)>>

\* C22: validateParameters does not short-circuit and emits in a fixed
\* order: every failed rule of every parameter appends exactly one error even
\* when an earlier rule already failed, and the errors list is the
\* missing-required errors in parameter declaration order followed by, for
\* each provided argument in the order of the mapping, its type error and
\* then its constraint errors; the warnings follow the order of the mapping.
C22_NoShortCircuitFixedOrder ==
    Validated =>
        /\ ~result.r.threw
        /\ result.r.errors =
              MissingRequiredErrors
              \o Concat([i \in DOMAIN Given |-> ArgumentErrors(Given[i])])
        /\ result.r.warnings =
              Concat([i \in DOMAIN Given |-> ArgumentWarnings(Given[i])])

\* The report of validating the one argument value under name
ReportOfOne(name, value) ==
    validateParameters(cap, Some(<<[key |-> name, val |-> value]>>))

\* C26: every declared parameter type is satisfiable: for each type of
\* string, number, boolean, object, array and file there is an argument
\* value for which validateParameters emits no type error for a parameter
\* declared with that type, so a capability with a required parameter of any
\* declared type admits an argument mapping with valid=true.  Stated of the
\* capability under test: each parameter it declares has such a value among
\* the values of every runtime kind, and if it declares a required parameter
\* some mapping is valid.
C26_EveryTypeSatisfiable ==
    /\ \A i \in DOMAIN Declared :
          DeclaredAs(Declared[i].name) = Declared[i] =>
              \E v \in ArgValues :
                  CountIf(ReportOfOne(Declared[i].name, v).errors,
                          LAMBDA m : IsTypeErrorFor(m, Declared[i].name)) = 0
    /\ (\E i \in DOMAIN Declared : Declared[i].required) =>
          \E a \in GivenMappings : validateParameters(cap, a).valid

(***************************************************************************)
(* SpecCap: validate, validateParameters and the JSON round trip of one    *)
(* capability, over bounded capabilities                                   *)
(***************************************************************************)
MaxExamples == 1

FullOptions ==
    [parameters |-> None,
     returnType |-> Some([type |-> "void"]),
     validation |-> Some([elementExists |-> TRUE]),
     timeout |-> Some(5000),
     retries |-> Some(3),
     conditions |-> Some(<<[type |-> "element", selector |-> <<"#", "a">>]>>),
     examples |-> None]

\* Parameter definitions: a required one, one whose pattern does not
\* compile, one of another type under the same name, one with no name and
\* no type.
CapParameterDefinitions ==
    {ParameterDefinition("user", "string", TRUE, Undefined, None),
     ParameterDefinition("user", "string", FALSE, Undefined,
                         Some([NoRules EXCEPT !.pattern = Some(<<"(">>)])),
     ParameterDefinition("user", "number", FALSE, Undefined, None),
     ParameterDefinition("", "", FALSE, Undefined, None)}

\* What an example may carry as its parameters: nothing, or a mapping
ExampleParameters ==
    {None, Some(<<>>),
     Some(<<[key |-> "user", val |-> Str(<<"a">>)]>>),
     Some(<<[key |-> "user", val |-> Num(1)]>>)}

CapabilityExamples ==
    {[description |-> d, parameters |-> ps] :
        d \in {"", "signs in"}, ps \in ExampleParameters}

CapSelectors ==
    {StringSelector(<<"#", "a">>),
     StringSelector(<<>>),
     SelectorDefinition(<<"#", "a">>, None),
     SelectorDefinition(<<"a", ">", "<", "b">>, Some(<<<<" ">>, <<"#", "a">>>>)),
     SelectorDefinition(<<>>, Some(<<<<"#", "a">>>>)),
     StringSelector(<<" ">>),
     SelectorDefinition(<<"#", "a">>,
                        Some(<<<<"a", "<", "<">>, <<>>, <<"a", "<", "<">>>>))}

\* Capabilities that differ in their required fields and selectors
StructureCapabilities ==
    {CapabilityCreate(id, name, "action", description, selector, NoOptions, t) :
        id \in {"", "cap-1"}, name \in {"", "login"},
        description \in {"", "Sign in"}, selector \in CapSelectors,
        t \in {1500, 2000}}

\* Capabilities that differ in their parameters, examples and options
SchemaCapabilities ==
    {CapabilityCreate("cap-1", "login", "action", "Sign in",
                      StringSelector(<<"#", "a">>),
                      [options EXCEPT !.parameters = ps, !.examples = exs], t) :
        options \in {NoOptions, FullOptions},
        ps \in {None} \cup {Some(l) : l \in SeqsUpTo(CapParameterDefinitions, MaxParams)},
        exs \in {None} \cup {Some(l) : l \in SeqsUpTo(CapabilityExamples, MaxExamples)},
        t \in {1500, 2000}}

InitCap ==
    /\ cap \in StructureCapabilities \cup SchemaCapabilities
    /\ args = None
    /\ result = [op |-> "none"]
    /\ ContractsIdle

\* A caller validates the capability
CallValidate ==
    /\ result.op = "none"
    /\ result' = [op |-> "validate", r |-> validate(cap)]
    /\ UNCHANGED <<cap, args, heap, contracts, now, call, report,
                   snapshots, supportVars>>

\* A caller serializes the capability and reads it back
CallRoundTrip ==
    /\ result.op = "none"
    /\ result' = [op |-> "roundTrip",
                  r |-> CapabilityFromJSON(CapabilityToJSON(cap))]
    /\ UNCHANGED <<cap, args, heap, contracts, now, call, report,
                   snapshots, supportVars>>

NextCap ==
    \/ CallValidate
    \/ CallRoundTrip
    \/ CallValidateParameters(ExampleParameters \ {None})

SpecCap == InitCap /\ [][NextCap]_vars

(***************************************************************************)
(* Properties of one capability (SpecCap)                                   *)
(***************************************************************************)
\* C6: for every capability c, also one created without parameters,
\* conditions or examples, fromJSON(c.toJSON()) equals c in every field.
C6_CapabilityRoundTrip ==
    result.op = "roundTrip" =>
        \A f \in DOMAIN cap : result.r[f] = cap[f]

\* C10: validateParameters(args) and validate() never throw; for every
\* capability and every argument mapping or example list, also an example
\* without parameters and a pattern that is no regular expression, they
\* return a {valid, errors, warnings} report.
C10_NeverThrows ==
    result.op \in {"validateParameters", "validate"} =>
        /\ ~result.r.threw
        /\ result.r.valid = (result.r.errors = <<>>)

\* The names that two or more declared parameters of the capability share
DuplicatedNames ==
    {Declared[i].name : i \in {k \in DOMAIN Declared :
                                  \E j \in DOMAIN Declared :
                                      j # k /\ Declared[j].name = Declared[k].name}}

HasDuplicateError(name) ==
    \E i \in DOMAIN result.r.errors :
        result.r.errors[i] = Msg("Duplicate parameter name", name)

\* C11: a capability whose parameter list holds two or more definitions with
\* the same name always returns valid=false from validate(), with a
\* 'Duplicate parameter name' error for that name; a capability whose
\* parameter names are pairwise distinct gets no such error.
C11_DuplicateParameterNames ==
    result.op = "validate" =>
        /\ DuplicatedNames # {} =>
              /\ ~result.r.threw
              /\ ~result.r.valid
              /\ \A name \in DuplicatedNames : HasDuplicateError(name)
        /\ (DuplicatedNames = {} /\ ~result.r.threw) =>
              \A i \in DOMAIN result.r.errors :
                  result.r.errors[i].msg # "Duplicate parameter name"

\* The errors of the report that are the message msg
ErrorsSaying(msg) == CountIf(result.r.errors, LAMBDA m : m = Msg(msg, ""))

OneIf(b) == IF b THEN 1 ELSE 0

Offending(selector) ==
    \/ \A i \in DOMAIN selector : selector[i] = " "
    \/ \E i \in 1..(Len(selector) - 1) :
          <<selector[i], selector[i + 1]>> \in {<<">", "<">>, <<"<", "<">>}

\* The fallback selectors of the capability under test, as constructed
Fallbacks ==
    IF ~cap.selector.isString /\ cap.selector.fallback.def
    THEN cap.selector.fallback.v ELSE <<>>

\* The capability with a well-formed selector in the place of its own: a
\* bare string, empty if the primary selector is
WithPlainSelector ==
    [cap EXCEPT !.selector =
        IF cap.selector.primary = <<>> THEN StringSelector(<<>>)
        ELSE StringSelector(<<"#", "a">>)]

WorkflowStep(capability) == [capability |-> capability]

WorkflowDefinition(description, steps) ==
    [description |-> description, steps |-> steps]

NoContractOptions == [description |-> None, workflows |-> None, metadata |-> None]

\* create(id, version, domain, title, capabilities, options) at time t
ContractCreate(id, version, domain, title, capabilities, options, t) ==
    [id |-> id, version |-> version, domain |-> domain, title |-> title,
     description |-> options.description,
     capabilities |-> capabilities,
     workflows |-> options.workflows,
     metadata |-> options.metadata,
     createdAt |-> t, updatedAt |-> t]

getCapabilities(h, c) == h[c.capabilities]

getCapabilityNames(h, c) == Keys(h[c.capabilities])

hasCapability(h, c, name) == In(name, h[c.capabilities])

\* getCapability(name): this.get('capabilities')[name] reads an own property,
\* or else what Object.prototype has under the name, or else undefined
getCapability(h, c, name) ==
    IF name \in OwnKeys(h[c.capabilities])
    THEN [k |-> "capability", v |-> Own(h[c.capabilities], name)]
    ELSE IF name \in ObjectPrototypeKeys
    THEN [k |-> "inherited"]
    ELSE [k |-> "undefined"]

\* { ...this.get('workflows') }: the own entries, none when undefined
SpreadWorkflows(h, c) == IF c.workflows.def THEN h[c.workflows.v] ELSE <<>>

\* Each "with-" operation returns the heap it leaves and the props of the
\* contract it constructs.
\* A withCapability that writes into the receiver's own capabilities object
withCapabilityInPlace(h, c, name, capability, t) ==
    [heap  |-> [h EXCEPT ![c.capabilities] = SetProp(@, name, capability)],
     props |-> [c EXCEPT !.updatedAt = t]]

withCapability(h, c, name, capability, t) ==
    LET capabilities == SetProp(h[c.capabilities], name, capability)
    IN  [heap  |-> Append(h, capabilities),
         props |-> [c EXCEPT !.capabilities = Len(h) + 1, !.updatedAt = t]]

withoutCapability(h, c, name, t) ==
    LET capabilities == DeleteProp(h[c.capabilities], name)
    IN  [heap  |-> Append(h, capabilities),
         props |-> [c EXCEPT !.capabilities = Len(h) + 1, !.updatedAt = t]]

withMetadata(h, c, metadata, t) ==
    [heap  |-> h,
     props |-> [c EXCEPT !.metadata = Some(metadata), !.updatedAt = t]]

withWorkflow(h, c, name, workflow, t) ==
    LET workflows == SetProp(SpreadWorkflows(h, c), name, workflow)
    IN  [heap  |-> Append(h, workflows),
         props |-> [c EXCEPT !.workflows = Some(Len(h) + 1), !.updatedAt = t]]

(***************************************************************************)
(* SemanTestContract.validate                                              *)
(***************************************************************************)
ContractFieldErrors(c) ==
    (IF c.id = "" THEN <<Msg("Contract ID is required", "")>> ELSE <<>>)
    \o (IF c.version = ""
        THEN <<Msg("Contract version is required", "")>> ELSE <<>>)
    \o (IF c.domain = ""
        THEN <<Msg("Contract domain is required", "")>> ELSE <<>>)
    \o (IF c.title = ""
        THEN <<Msg("Contract title is required", "")>> ELSE <<>>)

NoCapabilitiesWarning(capabilities) ==
    IF Len(Keys(capabilities)) = 0
    THEN <<Msg("Contract has no capabilities defined", "")>> ELSE <<>>

\* A capability loop that reports a capability's warnings as an error
CapabilityErrorsCountingWarnings(name, capability) ==
    LET capabilityValidation == validate(capability)
    IN  IF capabilityValidation.threw
        THEN <<[Msg("Capability", name) EXCEPT !.a = capabilityValidation.error]>>
        ELSE IF ~capabilityValidation.valid
                \/ Len(capabilityValidation.warnings) > 0
        THEN <<[Msg("Capability", name) EXCEPT
                   !.sub = capabilityValidation.errors
                           \o capabilityValidation.warnings]>>
        ELSE <<>>

\* A capability loop whose catch block pushes nothing
CapabilityErrorsSwallowingThrow(name, capability) ==
    LET capabilityValidation == validate(capability)
    IN  IF ~capabilityValidation.threw /\ ~capabilityValidation.valid
        THEN <<[Msg("Capability", name) EXCEPT !.sub = capabilityValidation.errors]>>
        ELSE <<>>

\* The try block of one capability: its errors, or the message of what its
\* validate() threw
CapabilityErrors(name, capability) ==
    LET capabilityValidation == validate(capability)
    IN  IF capabilityValidation.threw
        THEN <<[Msg("Capability", name) EXCEPT !.a = capabilityValidation.error]>>
        ELSE IF ~capabilityValidation.valid
        THEN <<[Msg("Capability", name) EXCEPT !.sub = capabilityValidation.errors]>>
        ELSE <<>>

CapabilityWarnings(name, capability) ==
    LET capabilityValidation == validate(capability)
    IN  IF ~capabilityValidation.threw /\ Len(capabilityValidation.warnings) > 0
        THEN <<[Msg("Capability", name) EXCEPT !.sub = capabilityValidation.warnings]>>
        ELSE <<>>

\* The loop over the workflows and their steps
WorkflowErrors(h, c) ==
    IF ~c.workflows.def THEN <<>>
    ELSE LET workflows == h[c.workflows.v]
         IN  Concat([i \in DOMAIN workflows |->
               LET steps == workflows[i].val.steps
               IN  Concat([j \in DOMAIN steps |->
                     IF ~hasCapability(h, c, steps[j].capability)
                     THEN <<[Msg("Workflow references unknown capability",
                                 workflows[i].key)
                                EXCEPT !.a = steps[j].capability]>>
                     ELSE <<>>])])

ContractValidate(h, c) ==
    LET capabilities == getCapabilities(h, c)
    IN  Returned(
          ContractFieldErrors(c)
          \o Concat([i \in DOMAIN capabilities |->
                CapabilityErrors(capabilities[i].key, capabilities[i].val)])
          \o WorkflowErrors(h, c),
          NoCapabilitiesWarning(capabilities)
          \o Concat([i \in DOMAIN capabilities |->
                CapabilityWarnings(capabilities[i].key, capabilities[i].val)]))

(***************************************************************************)
(* SemanTestContract.toJSON / fromJSON                                     *)
(***************************************************************************)
\* for (const [name, capability] of entries) capabilities[name] = capability.toJSON()
RECURSIVE AssignToJSON(_, _)
AssignToJSON(o, entries) ==
    IF entries = <<>> THEN o
    ELSE AssignToJSON(SetProp(o, Head(entries).key,
                              CapabilityToJSON(Head(entries).val)),
                      Tail(entries))

\* for (const [name, json] of entries) capabilities[name] = fromJSON(json)
RECURSIVE AssignFromJSON(_, _)
AssignFromJSON(o, entries) ==
    IF entries = <<>> THEN o
    ELSE AssignFromJSON(SetProp(o, Head(entries).key,
                                CapabilityFromJSON(Head(entries).val)),
                        Tail(entries))

\* toJSON(): the capabilities are a new object; the workflows map and the
\* metadata are the contract's own
ContractToJSON(h, c) ==
    [id |-> c.id, version |-> c.version, domain |-> c.domain,
     title |-> c.title,
     description |-> c.description,
     capabilities |-> AssignToJSON(<<>>, h[c.capabilities]),
     workflows |-> c.workflows,
     metadata |-> c.metadata,
     createdAt |-> toISOString(c.createdAt),
     updatedAt |-> toISOString(c.updatedAt)]

\* fromJSON(json): the heap it leaves and the props of the contract
ContractFromJSON(h, json) ==
    [heap  |-> Append(h, AssignFromJSON(<<>>, json.capabilities)),
     props |-> [id |-> json.id, version |-> json.version,
                domain |-> json.domain, title |-> json.title,
                description |-> json.description,
                capabilities |-> Len(h) + 1,
                workflows |-> json.workflows,
                metadata |-> json.metadata,
                createdAt |-> NewDate(json.createdAt),
                updatedAt |-> NewDate(json.updatedAt)]]

\* The fields of a contract with its two maps read out of the heap
Deep(h, c) ==
    [c EXCEPT !.capabilities = h[c.capabilities],
              !.workflows = IF c.workflows.def THEN Some(h[c.workflows.v])
                            ELSE None]

(***************************************************************************)
(* SpecContract: one contract, drawn from two families, is validated and   *)
(* is serialized and read back.                                            *)
(***************************************************************************)
MaxCaps == 2
MaxSteps == 2

GoodCapability ==
    CapabilityCreate("cap-1", "login", "action", "Sign in",
                     StringSelector(<<"#", "a">>),
                     [NoOptions EXCEPT !.parameters = Some(<<
                         ParameterDefinition("user", "string", TRUE,
                                             Undefined, None)>>)],
                     1000)

\* validate() reports an error: the id is empty
InvalidCapability == [GoodCapability EXCEPT !.id = ""]

\* validate() throws: its example has no parameters
ThrowingCapability ==
    [GoodCapability EXCEPT !.examples =
        Some(<<[description |-> "no input", parameters |-> None]>>)]

\* validate() reports a warning only: the selector contains "><"
WarningCapability ==
    [GoodCapability EXCEPT !.selector = StringSelector(<<"a", ">", "<", "b">>)]

\* The names capabilities are stored and looked up under
CapabilityNames == {"login", "logout", "toString", "__proto__"}

\* The entries a capabilities object is built from; the names taken from
\* Object.prototype come with the good capability only
CapabilityEntries ==
    {[key |-> name, val |-> capability] :
        name \in {"login", "logout"},
        capability \in {GoodCapability, InvalidCapability,
                        ThrowingCapability, WarningCapability}}
    \cup {[key |-> name, val |-> GoodCapability] :
            name \in {"toString", "__proto__"}}

DistinctKeys(o) == \A i, j \in DOMAIN o : o[i].key = o[j].key => i = j

CapabilityMaps ==
    {o \in SeqsUpTo(CapabilityEntries, MaxCaps) : DistinctKeys(o)}

StepNames == {"login", "logout", "toString"}

StepLists ==
    {[i \in DOMAIN l |-> WorkflowStep(l[i])] : l \in SeqsUpTo(StepNames, MaxSteps)}

WorkflowMaps ==
    {None, Some(<<>>)}
    \cup {Some(<<[key |-> "signIn", val |-> WorkflowDefinition("Sign in", l)]>>) :
            l \in StepLists}
    \cup {Some(<<[key |-> "signIn", val |-> WorkflowDefinition("Sign in", l)],
                 [key |-> "signOut",
                  val |-> WorkflowDefinition("Sign out",
                                             <<WorkflowStep("logout")>>)]>>) :
            l \in StepLists}

ContractMetadata == [author |-> "qa", tags |-> <<"auth">>]

\* Contracts that differ in their required fields and optional fields
FieldContracts ==
    {[capabilities |-> capabilities, workflows |-> workflows,
      props |-> ContractCreate(id, version, domain, title, 1,
                  [description |-> description,
                   workflows |-> IF workflows.def THEN Some(2) ELSE None,
                   metadata |-> metadata], t)] :
        id \in {"", "c-1"}, version \in {"", "1.0.0"},
        domain \in {"", "example.com"}, title \in {"", "Example"},
        capabilities \in {<<>>, <<[key |-> "login", val |-> GoodCapability]>>},
        workflows \in {None,
                       Some(<<[key |-> "signIn",
                               val |-> WorkflowDefinition("Sign in",
                                          <<WorkflowStep("login")>>)]>>)},
        description \in {None, Some("Example site")},
        metadata \in {None, Some(ContractMetadata)},
        t \in {2500}}

\* Contracts that differ in their capabilities and workflows
MapContracts ==
    {[capabilities |-> capabilities, workflows |-> workflows,
      props |-> ContractCreate("c-1", "1.0.0", "example.com", "Example", 1,
                  [NoContractOptions EXCEPT
                     !.workflows = IF workflows.def THEN Some(2) ELSE None],
                  2500)] :
        capabilities \in CapabilityMaps, workflows \in WorkflowMaps}

\* The caller's two objects are on the heap and the contract is created
CreatedFrom(family) ==
    \E made \in family :
        /\ heap = IF made.workflows.def
                  THEN <<made.capabilities, made.workflows.v>>
                  ELSE <<made.capabilities>>
        /\ contracts = <<made.props>>
        /\ snapshots = <<Deep(heap, made.props)>>
        /\ now = made.props.createdAt
        /\ call = [op |-> "create"]
        /\ report = [op |-> "none"]
        /\ cap = GoodCapability
        /\ args = None
        /\ result = [op |-> "none"]
        /\ SupportIdle

InitContract == CreatedFrom(FieldContracts \cup MapContracts)

\* A caller validates the latest contract
CallContractValidate ==
    /\ report.op = "none"
    /\ report' = [op |-> "validate", on |-> Len(contracts),
                  r |-> ContractValidate(heap, contracts[Len(contracts)])]
    /\ UNCHANGED <<cap, args, result, heap, contracts, now, call,
                   snapshots, supportVars>>

\* A caller serializes the first contract and reads it back
CallContractRoundTrip ==
    /\ Len(contracts) = 1
    /\ LET made == ContractFromJSON(heap, ContractToJSON(heap, contracts[1]))
       IN  /\ heap' = made.heap
           /\ contracts' = Append(contracts, made.props)
           /\ snapshots' = Append(snapshots, Deep(made.heap, made.props))
    /\ call' = [op |-> "roundTrip", recv |-> 1, ret |-> 2]
    /\ report' = [op |-> "none"]
    /\ UNCHANGED <<cap, args, result, now, supportVars>>

\* A caller looks a name up in the latest contract in the three ways
CallLookups ==
    \E name \in CapabilityNames :
        /\ report.op = "none"
        /\ report' = [op |-> "lookups", on |-> Len(contracts), name |-> name,
                      has |-> hasCapability(heap, contracts[Len(contracts)],
                                            name),
                      names |-> getCapabilityNames(heap,
                                                   contracts[Len(contracts)]),
                      got |-> getCapability(heap, contracts[Len(contracts)],
                                            name)]
        /\ UNCHANGED <<cap, args, result, heap, contracts, now, call,
                       snapshots, supportVars>>

NextContract ==
    \/ CallContractValidate
    \/ CallContractRoundTrip
    \/ CallLookups

SpecContract == InitContract /\ [][NextContract]_vars

(***************************************************************************)
(* Properties of the contract's report and its JSON form                   *)
(***************************************************************************)
Reported == report.r

ReportedOn == contracts[report.on]

ReportedCapabilities == heap[ReportedOn.capabilities]

ReportedWorkflows ==
    IF ReportedOn.workflows.def THEN heap[ReportedOn.workflows.v] ELSE <<>>

RequiredFieldsPresent(c) ==
    c.id # "" /\ c.version # "" /\ c.domain # "" /\ c.title # ""

CapabilityIsValid(capability) ==
    ~validate(capability).threw /\ validate(capability).valid

\* The steps of workflow w that name n
StepsNaming(w, n) == CountIf(w.val.steps, LAMBDA step : step.capability = n)

\* The errors of the report that name workflow w and capability n
ErrorsNaming(w, n) ==
    CountIf(Reported.errors,
            LAMBDA e : /\ e.msg = "Workflow references unknown capability"
                       /\ e.name = w.key
                       /\ e.a = n)

\* C1: validate() of a contract returns valid=true exactly when id, version,
\* domain and title are all non-empty, every capability of the capabilities
\* map is valid by its own validate(), and every step of every workflow names
\* a key of the capabilities map; and valid always equals (errors is empty).
C1_ContractValidity ==
    report.op = "validate" =>
        /\ Reported.valid = (Reported.errors = <<>>)
        /\ Reported.valid <=>
             /\ RequiredFieldsPresent(ReportedOn)
             /\ \A i \in DOMAIN ReportedCapabilities :
                    CapabilityIsValid(ReportedCapabilities[i].val)
             /\ \A i \in DOMAIN ReportedWorkflows :
                    \A j \in DOMAIN ReportedWorkflows[i].val.steps :
                        ReportedWorkflows[i].val.steps[j].capability
                            \in OwnKeys(ReportedCapabilities)

\* C2: for every workflow w and every step of w, validate() emits exactly one
\* error naming w and step.capability when step.capability is not a key of
\* the capabilities map, and no such error when it is a key; an otherwise
\* valid contract with one workflow of a single step naming an absent
\* capability has valid=false and exactly one error.
C2_DanglingWorkflowReference ==
    report.op = "validate" =>
        /\ \A i \in DOMAIN ReportedWorkflows : \A n \in StepNames :
               ErrorsNaming(ReportedWorkflows[i], n) =
                   IF n \in OwnKeys(ReportedCapabilities) THEN 0
                   ELSE StepsNaming(ReportedWorkflows[i], n)
        /\ ( /\ RequiredFieldsPresent(ReportedOn)
             /\ \A i \in DOMAIN ReportedCapabilities :
                    CapabilityIsValid(ReportedCapabilities[i].val)
             /\ Len(ReportedWorkflows) = 1
             /\ Len(ReportedWorkflows[1].val.steps) = 1
             /\ ReportedWorkflows[1].val.steps[1].capability
                    \notin OwnKeys(ReportedCapabilities) )
           => ~Reported.valid /\ Len(Reported.errors) = 1

\* The capability has warnings of its own and no errors
WarnsOnly(capability) ==
    /\ CapabilityIsValid(capability)
    /\ validate(capability).warnings # <<>>

\* C12: warnings never affect validity in the contract's validate(): with
\* non-empty id, version, domain and title, an empty capabilities map and no
\* workflows the report is valid=true with no error and exactly the one
\* warning that no capabilities are defined; and a capability that has only
\* warnings adds a warning under its name and no error.
C12_WarningsNeverAffectValidity ==
    report.op = "validate" =>
        /\ Reported.valid = (Reported.errors = <<>>)
        /\ ( /\ RequiredFieldsPresent(ReportedOn)
             /\ ReportedCapabilities = <<>>
             /\ ReportedWorkflows = <<>> )
           => /\ Reported.valid
              /\ Reported.errors = <<>>
              /\ Reported.warnings =
                    <<Msg("Contract has no capabilities defined", "")>>
        /\ \A i \in DOMAIN ReportedCapabilities :
              WarnsOnly(ReportedCapabilities[i].val) =>
                 /\ \A e \in Range(Reported.errors) :
                        ~(e.msg = "Capability"
                          /\ e.name = ReportedCapabilities[i].key)
                 /\ \E w \in Range(Reported.warnings) :
                        /\ w.msg = "Capability"
                        /\ w.name = ReportedCapabilities[i].key
                        /\ w.sub = validate(ReportedCapabilities[i].val).warnings
        /\ ( /\ RequiredFieldsPresent(ReportedOn)
             /\ ReportedWorkflows = <<>>
             /\ \A i \in DOMAIN ReportedCapabilities :
                    CapabilityIsValid(ReportedCapabilities[i].val) )
           => Reported.valid

\* A contract whose only capability has a warning was validated: the report
\* is valid and carries the capability's warning
C12_Witness ==
    /\ report.op = "validate"
    /\ Len(ReportedCapabilities) = 1
    /\ WarnsOnly(ReportedCapabilities[1].val)
    /\ Reported.valid
    /\ Len(Reported.warnings) = 1
    /\ Reported.warnings[1].name = ReportedCapabilities[1].key

\* C16: the three capability lookups of a contract agree for every name:
\* hasCapability(name) is true exactly when name is an element of
\* getCapabilityNames(), and getCapability(name) returns the stored capability
\* when name is such a key and undefined when it is not.
C16_LookupsAgree ==
    report.op = "lookups" =>
        /\ report.has <=> report.name \in Range(report.names)
        /\ IF report.name \in Range(report.names)
           THEN report.got = [k |-> "capability",
                              v |-> Own(ReportedCapabilities, report.name)]
           ELSE report.got = [k |-> "undefined"]

\* The entries of the reported contract's map whose validate() throws
Throwers ==
    {i \in DOMAIN ReportedCapabilities :
        validate(ReportedCapabilities[i].val).threw}

\* The error the catch block pushes for the capability at entry i
CaughtError(i) ==
    [Msg("Capability", ReportedCapabilities[i].key) EXCEPT
        !.a = validate(ReportedCapabilities[i].val).error]

\* The report of the same contract with a valid capability in the place of
\* each throwing one
ReportWithoutThrowers ==
    ContractValidate(
        [heap EXCEPT ![ReportedOn.capabilities] =
            [i \in DOMAIN ReportedCapabilities |->
                IF i \in Throwers
                THEN [key |-> ReportedCapabilities[i].key,
                      val |-> GoodCapability]
                ELSE ReportedCapabilities[i]]],
        ReportedOn)

\* C25: one bad capability cannot abort Contract.validate(): when the
\* validate() of a capability of the map throws, Contract.validate() still
\* returns a report, the report holds an error prefixed with that
\* capability's name, and every other capability and every workflow step is
\* reported exactly as it would be had that capability not thrown.
C25_ThrowingCapabilityIsFolded ==
    (report.op = "validate" /\ Throwers # {}) =>
        /\ ~Reported.threw
        /\ ~Reported.valid
        /\ \A i \in Throwers :
              CountIf(Reported.errors,
                      LAMBDA m : m.msg = "Capability"
                                 /\ m.name = ReportedCapabilities[i].key) = 1
        /\ \A i \in Throwers :
              CountIf(Reported.errors, LAMBDA m : m = CaughtError(i)) = 1
        /\ SelectSeq(Reported.errors,
                     LAMBDA m : \A i \in Throwers : m # CaughtError(i))
              = ReportWithoutThrowers.errors
        /\ Reported.warnings = ReportWithoutThrowers.warnings

\* A contract whose first capability throws and whose second is invalid, with
\* a workflow whose steps name both, was validated: one error for each
\* capability, the thrown one first, and none for the workflow
C25_Witness ==
    /\ report.op = "validate"
    /\ Throwers = {1}
    /\ Len(ReportedCapabilities) = 2
    /\ ReportedCapabilities[2].val = InvalidCapability
    /\ \E w \in Range(ReportedWorkflows) :
          /\ StepsNaming(w, ReportedCapabilities[1].key) = 1
          /\ StepsNaming(w, ReportedCapabilities[2].key) = 1
    /\ Reported.errors =
          <<CaughtError(1),
            [Msg("Capability", ReportedCapabilities[2].key) EXCEPT
                !.sub = <<Msg("Capability ID is required", "")>>]>>

\* The capabilities map b holds, under the keys of a and no others, the
\* round-tripped form of each capability of a
RoundTrippedMap(a, b) ==
    /\ OwnKeys(b) = OwnKeys(a)
    /\ \A name \in OwnKeys(a) :
           Own(b, name) = CapabilityFromJSON(CapabilityToJSON(Own(a, name)))

\* C7: fromJSON(c.toJSON()) has the same id, version, domain, title,
\* description, workflows, metadata and timestamps as c, and its capabilities
\* map has exactly the keys of c's, each mapped to the round-tripped form of
\* c's capability under that key.
C7_ContractRoundTrip ==
    call.op = "roundTrip" =>
        LET c == Deep(heap, contracts[call.recv])
            r == Deep(heap, contracts[call.ret])
        IN  /\ \A f \in DOMAIN c \ {"capabilities"} : r[f] = c[f]
            /\ RoundTrippedMap(c.capabilities, r.capabilities)

(***************************************************************************)
(* Spec: a contract is created and a chain of "with-" operations follows,  *)
(* each called on the contract the previous one returned.  Every contract  *)
(* ever constructed stays in contracts, and snapshots records what each    *)
(* one held when it was constructed.                                       *)
(***************************************************************************)
MaxCalls == 2

WorkflowNames == {"signIn", "signOut"}

ChainWorkflows ==
    {WorkflowDefinition("Sign in", <<WorkflowStep("login")>>),
     WorkflowDefinition("Sign out", <<WorkflowStep("logout"),
                                      WorkflowStep("toString")>>)}

ChainMetadata == {ContractMetadata, [author |-> "dev", tags |-> <<>>]}

ChainContracts ==
    {[capabilities |-> capabilities, workflows |-> workflows,
      props |-> ContractCreate("c-1", "1.0.0", "example.com", "Example", 1,
                  [description |-> Some("Example site"),
                   workflows |-> IF workflows.def THEN Some(2) ELSE None,
                   metadata |-> None], 2500)] :
        capabilities \in {<<[key |-> "login", val |-> GoodCapability]>>,
                          <<[key |-> "__proto__", val |-> GoodCapability],
                            [key |-> "login", val |-> InvalidCapability]>>,
                          <<[key |-> "login", val |-> GoodCapability],
                            [key |-> "toString", val |-> GoodCapability]>>},
        workflows \in {None,
                       Some(<<[key |-> "signIn",
                               val |-> WorkflowDefinition("Sign in",
                                          <<WorkflowStep("login"),
                                            WorkflowStep("toString")>>)]>>)}}

Init == CreatedFrom(ChainContracts)

\* The contract the next call is made on
Receiver == contracts[Len(contracts)]

\* What the latest call was, as the next call remembers it
Before ==
    IF call.op \in {"create", "roundTrip"} THEN [op |-> call.op]
    ELSE [op |-> call.op, name |-> call.name, arg |-> call.arg]

\* The call returned: its contract is constructed at time t, the reading of
\* the clock, which has or has not moved on since the call before
Constructed(op, name, arg, made, t) ==
    /\ Len(contracts) <= MaxCalls
    /\ heap' = made.heap
    /\ contracts' = Append(contracts, made.props)
    /\ snapshots' = Append(snapshots, Deep(made.heap, made.props))
    /\ now' = t
    /\ call' = [op |-> op, recv |-> Len(contracts), ret |-> Len(contracts) + 1,
                name |-> name, arg |-> arg, before |-> Before]
    /\ report' = [op |-> "none"]
    /\ UNCHANGED <<cap, args, result, supportVars>>

CallWithCapability ==
    \E t \in {now, now + 1}, name \in CapabilityNames,
       capability \in {GoodCapability, InvalidCapability} :
        Constructed("withCapability", name, capability,
                    withCapability(heap, Receiver, name, capability, t),
                    t)

CallWithoutCapability ==
    \E t \in {now, now + 1}, name \in CapabilityNames :
        Constructed("withoutCapability", name, Undefined,
                    withoutCapability(heap, Receiver, name, t), t)

CallWithMetadata ==
    \E t \in {now, now + 1}, metadata \in ChainMetadata :
        Constructed("withMetadata", "", metadata,
                    withMetadata(heap, Receiver, metadata, t), t)

CallWithWorkflow ==
    \E t \in {now, now + 1}, name \in WorkflowNames, workflow \in ChainWorkflows :
        Constructed("withWorkflow", name, workflow,
                    withWorkflow(heap, Receiver, name, workflow, t),
                    t)

Next ==
    \/ CallWithCapability
    \/ CallWithoutCapability
    \/ CallWithMetadata
    \/ CallWithWorkflow
    \/ CallContractValidate

Spec == Init /\ [][Next]_vars

(***************************************************************************)
(* Properties of the "with-" operations                                    *)
(***************************************************************************)
WithOperations ==
    {"withCapability", "withoutCapability", "withMetadata", "withWorkflow"}

\* The field a "with-" operation replaces
NamedField(op) ==
    IF op \in {"withCapability", "withoutCapability"} THEN "capabilities"
    ELSE IF op = "withMetadata" THEN "metadata"
    ELSE "workflows"

\* C8: after any sequence of withCapability, withoutCapability, withMetadata
\* and withWorkflow calls, each call has returned a new contract in which only
\* the named field and updatedAt differ from the receiver, so that id, version,
\* domain, title, description and createdAt are those of the first contract;
\* and every contract, its capabilities and workflows maps included, still
\* holds what it held when it was constructed.
C8_WithOperationsFrame ==
    /\ \A i \in DOMAIN contracts : Deep(heap, contracts[i]) = snapshots[i]
    /\ call.op \in WithOperations =>
          LET receiver == Deep(heap, contracts[call.recv])
              returned == Deep(heap, contracts[call.ret])
          IN  /\ call.ret # call.recv
              /\ \A f \in DOMAIN receiver \ {NamedField(call.op), "updatedAt"} :
                     returned[f] = receiver[f]
    /\ \A i \in DOMAIN contracts :
          \A f \in {"id", "version", "domain", "title", "description",
                    "createdAt"} :
              contracts[i][f] = contracts[1][f]

\* Two calls were made after create: withWorkflow, then a withoutCapability
\* that removed a capability the first contract holds
C8_Witness ==
    /\ Len(contracts) = 3
    /\ call.op = "withoutCapability"
    /\ call.before.op = "withWorkflow"
    /\ call.name \in OwnKeys(snapshots[1].capabilities)
    /\ call.name \notin OwnKeys(heap[contracts[3].capabilities])
    /\ snapshots[3].workflows # snapshots[1].workflows

\* The latest two calls were withCapability with the same name and capability
CalledTwice ==
    /\ call.op = "withCapability"
    /\ call.before.op = "withCapability"
    /\ call.before.name = call.name
    /\ call.before.arg = call.arg

\* C9: withCapability is idempotent: c.withCapability(n, cap) called again
\* with the same n and cap returns a contract equal to its receiver in every
\* field except updatedAt.
C9_WithCapabilityIdempotent ==
    CalledTwice =>
        LET once  == Deep(heap, contracts[call.recv])
            twice == Deep(heap, contracts[call.ret])
        IN  \A f \in DOMAIN once \ {"updatedAt"} : twice[f] = once[f]

\* withCapability was called twice with a name the first contract maps to
\* another capability, and the clock moved between the two calls
C9_Witness ==
    /\ CalledTwice
    /\ call.name \in OwnKeys(snapshots[1].capabilities)
    /\ Own(snapshots[1].capabilities, call.name) # call.arg
    /\ Own(heap[contracts[call.ret].capabilities], call.name) = call.arg
    /\ contracts[call.ret].updatedAt # contracts[call.recv].updatedAt

(***************************************************************************)
(* Ports: the static registry of port implementations                      *)
(*                                                                         *)
(* A port is a class: it has an identity and a name, and two classes       *)
(* declared in two modules can have the same name.  An implementation is   *)
(* an object.  The registry is a Map keyed by the name of the class.       *)
(***************************************************************************)
PortClass(id, name) == [id |-> id, name |-> name]

Implementation(class, id) == [class |-> class, id |-> id]

\* The port of a call that takes none
NoPort == PortClass(0, "")

\* What a call returns when it returns no implementation
NoImplementation == Implementation("", 0)

\* A call that threw nothing carries no error
NoError == Msg("", "")

\* What set and clear return: undefined
ReturnedVoid == [threw |-> FALSE, error |-> NoError, v |-> NoImplementation]

\* Map.prototype.get: the value under the key, or undefined
MapGet(m, key) ==
    IF \E i \in DOMAIN m : m[i].key = key
    THEN Some(m[CHOOSE i \in DOMAIN m : m[i].key = key].val)
    ELSE None

\* Map.prototype.set: the value under the key is replaced, or a new entry is
\* added after the entries there are
MapSet(m, key, val) ==
    IF \E i \in DOMAIN m : m[i].key = key
    THEN [i \in DOMAIN m |-> IF m[i].key = key
                             THEN [key |-> key, val |-> val] ELSE m[i]]
    ELSE Append(m, [key |-> key, val |-> val])

\* Ports.get(port): an implementation is an object, so !implementation is
\* true of undefined only
PortsGet(m, port) ==
    LET implementation == MapGet(m, port.name)
    IN  IF ~implementation.def
        THEN [threw |-> TRUE, error |-> Msg("Port not found", port.name),
              v |-> NoImplementation]
        ELSE [threw |-> FALSE, error |-> NoError, v |-> implementation.v]

\* Ports.set(port, implementation): the registry it leaves
PortsSet(m, port, implementation) == MapSet(m, port.name, implementation)

\* Ports.clear(): the registry it leaves
PortsClear(m) == <<>>

(***************************************************************************)
(* SpecPorts: any sequence of up to MaxPortCalls calls on Ports            *)
(***************************************************************************)
MaxPortCalls == 4

\* Two classes named TestPort, declared in two modules, and a third class
PortClasses ==
    {PortClass(1, "TestPort"), PortClass(2, "TestPort"),
     PortClass(3, "OtherPort")}

Implementations ==
    {Implementation("TestPortImpl", 1), Implementation("TestPortImpl", 2)}

InitPorts ==
    /\ ports = <<>>
    /\ history = <<>>
    /\ objects = [op |-> "none"]
    /\ ListenIdle
    /\ cap = GoodCapability
    /\ args = None
    /\ result = [op |-> "none"]
    /\ heap = <<>>
    /\ contracts = <<>>
    /\ now = 0
    /\ call = [op |-> "none"]
    /\ report = [op |-> "none"]
    /\ snapshots = <<>>

\* The call is recorded with the registry it found
PortsCalled(op, port, implementation, r) ==
    /\ Len(history) < MaxPortCalls
    /\ history' = Append(history, [op |-> op, port |-> port,
                                   implementation |-> implementation,
                                   before |-> ports, r |-> r])
    /\ UNCHANGED <<cap, args, result, heap, contracts, now, call, report,
                   snapshots, objects, listenVars>>

CallPortsSet ==
    \E port \in PortClasses, implementation \in Implementations :
        /\ ports' = PortsSet(ports, port, implementation)
        /\ PortsCalled("set", port, implementation, ReturnedVoid)

CallPortsGet ==
    \E port \in PortClasses :
        /\ ports' = ports
        /\ PortsCalled("get", port, NoImplementation, PortsGet(ports, port))

CallPortsClear ==
    /\ ports' = PortsClear(ports)
    /\ PortsCalled("clear", NoPort, NoImplementation, ReturnedVoid)

NextPorts ==
    \/ CallPortsSet
    \/ CallPortsGet
    \/ CallPortsClear

SpecPorts == InitPorts /\ [][NextPorts]_vars

(***************************************************************************)
(* Properties of Ports                                                     *)
(***************************************************************************)
\* The latest call on Ports
LastPortsCall == history[Len(history)]

\* The calls before the latest that set the port and that no clear followed
SetsInForce(port) ==
    {i \in 1..(Len(history) - 1) :
        /\ history[i].op = "set"
        /\ history[i].port = port
        /\ \A j \in (i + 1)..(Len(history) - 1) : history[j].op # "clear"}

\* C13: after any sequence of Ports.set, Ports.clear and Ports.get calls,
\* Ports.get(key) returns the implementation passed to the most recent
\* Ports.set(key, impl) made after the last Ports.clear(), and throws
\* 'Port <name> not found' when there is no such set; a failed get leaves
\* the registry unchanged, and clear drops every entry.
C13_PortsRegistry ==
    history # <<>> =>
        /\ LastPortsCall.op = "get" =>
              LET port == LastPortsCall.port
              IN  /\ ports = LastPortsCall.before
                  /\ IF SetsInForce(port) = {}
                     THEN /\ LastPortsCall.r.threw
                          /\ LastPortsCall.r.error =
                                Msg("Port not found", port.name)
                     ELSE /\ ~LastPortsCall.r.threw
                          /\ LastPortsCall.r.v =
                                history[Max(SetsInForce(port))].implementation
        /\ LastPortsCall.op = "clear" => ports = <<>>

(***************************************************************************)
(* ValueObject.equals                                                      *)
(*                                                                         *)
(* The props of a value object are undefined, a string or a plain object   *)
(* whose values are primitives: a record [k, s, entries].                  *)
(***************************************************************************)
UndefinedProps == [k |-> "undefined", s |-> <<>>, entries |-> <<>>]

StringProps(s) == [k |-> "string", s |-> s, entries |-> <<>>]

ObjectProps(entries) == [k |-> "object", s |-> <<>>, entries |-> entries]

\* The argument of equals(): a value object, null or undefined
ValueObjectOf(props) == [k |-> "ValueObject", props |-> props]

NullObject == [k |-> "null", props |-> UndefinedProps]

UndefinedObject == [k |-> "undefined", props |-> UndefinedProps]

\* JSON.stringify of a primitive inside an object, as a sequence of tokens
StringifyValue(v) ==
    IF v.k = "string" THEN <<"\"">> \o v.s \o <<"\"">>
    ELSE IF v.k = "number" THEN <<ToString(v.n)>>
    ELSE IF v.k = "boolean" THEN <<IF v.n = 1 THEN "true" ELSE "false">>
    ELSE <<"null">>

\* The members JSON.stringify writes: an entry whose value is undefined is
\* left out, the others are written in the order of the own keys
RECURSIVE StringifyMembers(_)
StringifyMembers(entries) ==
    IF entries = <<>> THEN <<>>
    ELSE LET e    == Head(entries)
             rest == StringifyMembers(Tail(entries))
         IN  IF e.val.k = "undefined" THEN rest
             ELSE <<"\"", e.key, "\"", ":">> \o StringifyValue(e.val)
                  \o (IF rest = <<>> THEN <<>> ELSE <<",">> \o rest)

\* JSON.stringify(props): undefined for undefined, else the text
JSONStringify(props) ==
    IF props.k = "undefined" THEN None
    ELSE IF props.k = "string" THEN Some(<<"\"">> \o props.s \o <<"\"">>)
    ELSE Some(<<"{">> \o StringifyMembers(props.entries) \o <<"}">>)

\* this.equals(vo)
equals(this, vo) ==
    IF vo.k \in {"null", "undefined"} THEN FALSE
    ELSE IF vo.props.k = "undefined" THEN FALSE
    ELSE JSONStringify(this.props) = JSONStringify(vo.props)

(***************************************************************************)
(* SpecValue: two value objects are compared                               *)
(***************************************************************************)
MaxKeys == 2

PropValues == {Num(1), Num(2), Str(<<"1">>), Undefined}

PropEntries == {[key |-> key, val |-> val] : key \in {"a", "b"}, val \in PropValues}

ValueProps ==
    {UndefinedProps, StringProps(<<"t", "1">>), StringProps(<<"t", "2">>)}
    \cup {ObjectProps(entries) :
            entries \in {o \in SeqsUpTo(PropEntries, MaxKeys) : DistinctKeys(o)}}

ValueObjects == {ValueObjectOf(props) : props \in ValueProps}

InitValue ==
    /\ objects \in {[op |-> "none", this |-> this, vo |-> vo, r |-> FALSE] :
                       this \in ValueObjects,
                       vo \in ValueObjects \cup {NullObject, UndefinedObject}}
    /\ ports = <<>>
    /\ history = <<>>
    /\ ListenIdle
    /\ cap = GoodCapability
    /\ args = None
    /\ result = [op |-> "none"]
    /\ heap = <<>>
    /\ contracts = <<>>
    /\ now = 0
    /\ call = [op |-> "none"]
    /\ report = [op |-> "none"]
    /\ snapshots = <<>>

CallEquals ==
    /\ objects.op = "none"
    /\ objects' = [objects EXCEPT !.op = "equals",
                                  !.r = equals(objects.this, objects.vo)]
    /\ UNCHANGED <<cap, args, result, heap, contracts, now, call, report,
                   snapshots, ports, history, listenVars>>

NextValue == CallEquals

SpecValue == InitValue /\ [][NextValue]_vars

(***************************************************************************)
(* Properties of ValueObject.equals                                        *)
(***************************************************************************)
\* Two props are the same: the same string, or objects with the same own
\* keys and the same value under each key, or both undefined
SameProps(p, q) ==
    /\ p.k = q.k
    /\ p.s = q.s
    /\ OwnKeys(p.entries) = OwnKeys(q.entries)
    /\ \A key \in OwnKeys(p.entries) : Own(p.entries, key) = Own(q.entries, key)

\* C14: equals(other) returns true when the two value objects have the same
\* props, false when they have different props, and false when other is null
\* or undefined.
C14_ValueObjectEquals ==
    objects.op = "equals" =>
        objects.r = IF objects.vo.k \in {"null", "undefined"} THEN FALSE
                    ELSE SameProps(objects.this.props, objects.vo.props)

\* The workflows of contract c have a step that names n
HasStepNaming(c, n) ==
    \E i \in DOMAIN SpreadWorkflows(heap, c) :
        \E j \in DOMAIN SpreadWorkflows(heap, c)[i].val.steps :
            SpreadWorkflows(heap, c)[i].val.steps[j].capability = n

\* The latest two calls were withoutCapability(n) and then withCapability(n,
\* cap) with a valid cap, on a contract that held n
RemovedThenRestored ==
    /\ call.op = "withCapability"
    /\ call.before.op = "withoutCapability"
    /\ call.before.name = call.name
    /\ CapabilityIsValid(call.arg)
    /\ call.name \in OwnKeys(heap[contracts[call.recv - 1].capabilities])

\* C17: a dangling workflow reference is checked, not structurally enforced:
\* from a contract that validates to valid=true and has a workflow step
\* naming its capability n, withoutCapability(n) returns a contract whose
\* validate() is valid=false, and a following withCapability(n, cap) with a
\* valid cap returns a contract whose validate() is valid=true again.
C17_TransientDanglingReference ==
    RemovedThenRestored =>
        LET original == contracts[call.recv - 1]
            removed  == contracts[call.recv]
            restored == contracts[call.ret]
        IN  ( /\ ContractValidate(heap, original).valid
              /\ HasStepNaming(original, call.name) )
            => /\ ~ContractValidate(heap, removed).valid
               /\ ContractValidate(heap, restored).valid

(***************************************************************************)
(* SpecRules: a capability declares one parameter with a validation block  *)
(* of length, pattern or bound rules, and one argument is validated        *)
(***************************************************************************)
MaxLen == 2
MaxNum == 1

\* Length bounds: not declared, or 0..MaxLen
LengthBounds == {NoNum} \cup {NumOf(n) : n \in 0..MaxLen}

\* Patterns that compile: not declared, empty, a literal, and anchored ones
RulePatterns ==
    {None, Some(<<>>), Some(<<"a">>), Some(<<"^", "a">>),
     Some(<<"^", "a", "$">>)}

\* Number bounds: not declared, or -MaxNum..MaxNum
NumberBounds == {NoNum} \cup {NumOf(n) : n \in (0 - MaxNum)..MaxNum}

StringRules ==
    {[NoRules EXCEPT !.minLength = lo, !.maxLength = hi, !.pattern = p] :
        lo \in LengthBounds, hi \in LengthBounds, p \in RulePatterns}

NumberRules ==
    {[NoRules EXCEPT !.minimum = lo, !.maximum = hi] :
        lo \in NumberBounds, hi \in NumberBounds}

RuleCapabilities ==
    {CapabilityCreate("cap-1", "login", "action", "Sign in",
                      StringSelector(<<"#", "a">>),
                      [NoOptions EXCEPT !.parameters = Some(<<
                          ParameterDefinition("user", type, FALSE, Undefined,
                                              Some(rules))>>)],
                      1500) :
        type \in {"string", "number"}, rules \in StringRules \cup NumberRules}

\* Strings of up to MaxLen characters and the numbers around the bounds
RuleValues ==
    {Str(s) : s \in SeqsUpTo({"a", "b"}, MaxLen)}
    \cup {Num(n) : n \in (0 - MaxNum - 1)..(MaxNum + 1)}

RuleMappings == {Some(<<[key |-> "user", val |-> v]>>) : v \in RuleValues}

InitRules ==
    /\ cap \in RuleCapabilities
    /\ args = None
    /\ result = [op |-> "none"]
    /\ ContractsIdle

NextRules == CallValidateParameters(RuleMappings)

SpecRules == InitRules /\ [][NextRules]_vars

(***************************************************************************)
(* Properties of the validation rules (SpecRules)                          *)
(***************************************************************************)
\* The validation block of the one declared parameter
Rules == Declared[1].validation.v

\* The one argument that was validated
Value == Given[1].val

IsStringArgument == Validated /\ Value.k = "string"

\* C19: for every string argument of a parameter that declares minLength
\* and/or maxLength, whatever the bound (0 included), validateParameters
\* emits exactly one error when the value has fewer characters than
\* minLength and exactly one error when it has more than maxLength, and no
\* length error otherwise.
C19_LengthBounds ==
    IsStringArgument =>
        /\ CountIf(result.r.errors,
                   LAMBDA m : m.msg = "must be at least characters") =
              OneIf(Rules.minLength.def /\ Len(Value.s) < Rules.minLength.n)
        /\ CountIf(result.r.errors,
                   LAMBDA m : m.msg = "must be at most characters") =
              OneIf(Rules.maxLength.def /\ Len(Value.s) > Rules.maxLength.n)

\* The pattern, taken as a whole-value match: the value is the text between
\* the anchors
MatchesWhole(pattern, s) == s = RegExpBody(pattern)

\* C20: for every string argument of a parameter that declares a pattern,
\* the pattern is matched against the whole value: validateParameters emits
\* a 'does not match required pattern' error unless the entire value matches
\* the pattern.
C20_PatternMatchesWholeValue ==
    (IsStringArgument /\ Rules.pattern.def) =>
        CountIf(result.r.errors,
                LAMBDA m : m = Msg("does not match required pattern", "user")) =
            OneIf(~MatchesWhole(Rules.pattern.v, Value.s))

IsNumberArgument == Validated /\ Value.k = "number"

\* C21: for every numeric argument of a parameter that declares minimum
\* and/or maximum, whatever the bound (0 and negative bounds included), the
\* bounds are inclusive: a value equal to minimum or to maximum produces no
\* bound error, a value below minimum exactly one error and a value above
\* maximum exactly one error.
C21_InclusiveBounds ==
    IsNumberArgument =>
        /\ ~result.r.threw
        /\ CountIf(result.r.errors,
                   LAMBDA m : m = [Msg("must be at least", "user") EXCEPT
                                      !.num = Rules.minimum.n]) =
              OneIf(Rules.minimum.def /\ Value.n < Rules.minimum.n)
        /\ CountIf(result.r.errors,
                   LAMBDA m : m = [Msg("must be at most", "user") EXCEPT
                                      !.num = Rules.maximum.n]) =
              OneIf(Rules.maximum.def /\ Value.n > Rules.maximum.n)
        /\ CountIf(result.r.errors,
                   LAMBDA m : m.msg \in {"must be at least", "must be at most"})
              = OneIf(Rules.minimum.def /\ Value.n < Rules.minimum.n)
                + OneIf(Rules.maximum.def /\ Value.n > Rules.maximum.n)

\* A number parameter bounded by 0 and 0 was given -1: one error, for the
\* minimum of 0
C21_Witness ==
    /\ IsNumberArgument
    /\ Declared[1].type = "number"
    /\ Rules.minimum = NumOf(0)
    /\ Rules.maximum = NumOf(0)
    /\ Value = Num(0 - 1)
    /\ result.r.errors = <<Msg("must be at least", "user")>>

(***************************************************************************)
(* SpecExamples: validate() of a capability that lists examples            *)
(***************************************************************************)
MaxListed == 2

\* Parameter lists: a required string, an optional number restricted by an
\* enum list, a required string named like a property of Object.prototype,
\* and no parameter at all
ExampleSchemas ==
    {<<ParameterDefinition("user", "string", TRUE, Undefined, None)>>,
     <<ParameterDefinition("user", "number", FALSE, Undefined, Some(EnumAOr1))>>,
     <<ParameterDefinition("toString", "string", TRUE, Undefined, None)>>,
     <<>>}

ExampleLists ==
    {None} \cup {Some(l) : l \in SeqsUpTo(CapabilityExamples, MaxListed)}

ExampleCapabilities ==
    {CapabilityCreate("cap-1", "login", "action", "Sign in",
                      StringSelector(<<"#", "a">>),
                      [NoOptions EXCEPT !.parameters = Some(ps),
                                        !.examples = exs], 1500) :
        ps \in ExampleSchemas, exs \in ExampleLists}

InitExamples ==
    /\ cap \in ExampleCapabilities
    /\ args = None
    /\ result = [op |-> "none"]
    /\ ContractsIdle

NextExamples == CallValidate

SpecExamples == InitExamples /\ [][NextExamples]_vars

(***************************************************************************)
(* Properties of the examples (SpecExamples)                               *)
(***************************************************************************)
\* The examples the capability lists, as constructed
Listed == IF cap.examples.def THEN cap.examples.v ELSE <<>>

\* The example omits a required parameter, or gives an argument that
\* violates its declared type or its enum list
Flawed(example) ==
    /\ example.parameters.def
    /\ \/ \E i \in DOMAIN Declared :
              /\ Declared[i].required
              /\ Declared[i].name \notin OwnKeys(example.parameters.v)
       \/ \E j \in DOMAIN example.parameters.v :
              ArgumentErrors(example.parameters.v[j]) # <<>>

\* C23: validate() runs every listed example's parameters through
\* validateParameters against the same capability: the error list holds an
\* entry 'Example i' carrying the argument errors of the example at 1-based
\* position i exactly when validateParameters reports valid=false for it, so
\* a capability with an example that omits a required parameter or violates
\* a type or constraint is itself invalid.
C23_ExamplesValidated ==
    (result.op = "validate" /\ ~result.r.threw) =>
        \A i \in DOMAIN Listed :
            LET r == validateParameters(cap, Listed[i].parameters)
            IN  /\ CountIf(result.r.errors,
                           LAMBDA m : m.msg = "Example" /\ m.num = i)
                      = OneIf(~r.valid)
                /\ ~r.valid =>
                      \E k \in DOMAIN result.r.errors :
                          result.r.errors[k] =
                              [Msg("Example", "") EXCEPT
                                  !.num = i, !.sub = r.errors]
                /\ Flawed(Listed[i]) => ~result.r.valid

(***************************************************************************)
(* The @listen decorator and the metadata it keeps                         *)
(*                                                                         *)
(* A constructor is named by its class; "Function" is the constructor of   *)
(* every constructor and "null" ends a prototype chain.  The metadata      *)
(* under the key 'listeners' is a sequence of entries [target, value], one *)
(* for each constructor that has its own; the array of an entry is         *)
(* reached through the entry, so a push is seen by whoever reads it.       *)
(***************************************************************************)
\* class Sub extends Base; Base and Other extend nothing
Classes == {"Base", "Sub", "Other"}

\* Object.getPrototypeOf(O) of a constructor, as far as metadata can sit:
\* the superclass, and Function.prototype (here "null") above it
GetPrototypeOf(O) == IF O = "Sub" THEN "Base" ELSE "null"

\* The target a method decorator receives: the prototype of the class for
\* an instance method, the constructor of the class for a static one
PrototypeOf(class) == [kind |-> "prototype", of |-> class]
ConstructorOf(class) == [kind |-> "constructor", of |-> class]

\* target.constructor
Constructor(target) ==
    IF target.kind = "prototype" THEN target.of ELSE "Function"

HasOwnMetadata(m, O) == \E i \in DOMAIN m : m[i].target = O

\* Reflect.hasMetadata('listeners', O): the target or its prototype chain
RECURSIVE HasMetadata(_, _)
HasMetadata(m, O) ==
    IF O = "null" THEN FALSE
    ELSE IF HasOwnMetadata(m, O) THEN TRUE
    ELSE HasMetadata(m, GetPrototypeOf(O))

\* Reflect.getMetadata('listeners', O): where the array it returns is held,
\* the entry of the target or of the nearest constructor above it (0: none)
RECURSIVE GetMetadata(_, _)
GetMetadata(m, O) ==
    IF O = "null" THEN 0
    ELSE IF HasOwnMetadata(m, O)
    THEN Min({i \in DOMAIN m : m[i].target = O})
    ELSE GetMetadata(m, GetPrototypeOf(O))

\* Reflect.defineMetadata('listeners', value, O)
DefineMetadata(m, value, O) ==
    IF HasOwnMetadata(m, O)
    THEN [i \in DOMAIN m |-> IF m[i].target = O
                             THEN [target |-> O, value |-> value] ELSE m[i]]
    ELSE Append(m, [target |-> O, value |-> value])

\* The record of one application
ListenerRecord(event, propertyKey, descriptor) ==
    [event |-> event, propertyKey |-> propertyKey, descriptor |-> descriptor]

\* listen(event)(target, propertyKey, descriptor)
listen(m, event, target, propertyKey, descriptor) ==
    LET defined == IF ~HasMetadata(m, Constructor(target))
                   THEN DefineMetadata(m, <<>>, Constructor(target))
                   ELSE m
        at      == GetMetadata(defined, Constructor(target))
    IN  [defined EXCEPT ![at].value =
            Append(@, ListenerRecord(event, propertyKey, descriptor))]

(***************************************************************************)
(* SpecListen: methods of three classes are decorated, in any order        *)
(***************************************************************************)
MaxDecorations == 3

Events == {"EmailVerified", "PaymentProcessed"}

PropertyKeys == {"onEvent", "handle"}

Targets == {PrototypeOf(c) : c \in Classes} \cup {ConstructorOf(c) : c \in Classes}

\* The descriptor of a method: its function, told by where it is declared
DescriptorOf(target, propertyKey) ==
    [value |-> <<target.kind, target.of, propertyKey>>]

InitListen ==
    /\ ListenIdle
    /\ ports = <<>>
    /\ history = <<>>
    /\ objects = [op |-> "none"]
    /\ cap = GoodCapability
    /\ args = None
    /\ result = [op |-> "none"]
    /\ heap = <<>>
    /\ contracts = <<>>
    /\ now = 0
    /\ call = [op |-> "none"]
    /\ report = [op |-> "none"]
    /\ snapshots = <<>>

\* A method is decorated with @listen(event)
ApplyListen ==
    \E target \in Targets, event \in Events, propertyKey \in PropertyKeys :
        /\ Len(decorations) < MaxDecorations
        /\ listeners' = listen(listeners, event, target, propertyKey,
                               DescriptorOf(target, propertyKey))
        /\ decorations' = Append(decorations,
                                 [target |-> target, event |-> event,
                                  propertyKey |-> propertyKey])
        /\ UNCHANGED <<cap, args, result, heap, contracts, now, call, report,
                       snapshots, ports, history, objects>>

NextListen == ApplyListen

SpecListen == InitListen /\ [][NextListen]_vars

(***************************************************************************)
(* Properties of the listener tables (SpecListen)                          *)
(***************************************************************************)
\* The 'listeners' metadata a class has of its own: empty if it has none
TableOf(class) ==
    IF HasOwnMetadata(listeners, class)
    THEN listeners[Min({i \in DOMAIN listeners :
                           listeners[i].target = class})].value
    ELSE <<>>

\* The applications made on the methods declared on a class, oldest first
DecorationsOn(class) == SelectSeq(decorations, LAMBDA d : d.target.of = class)

\* C27: the @listen listener table is per class: after any sequence of
\* @listen applications, the 'listeners' metadata of a class holds exactly
\* one {event, propertyKey, descriptor} record for each decorated method
\* declared on that class, in decoration order, and decorating a method of
\* one class (a subclass of a decorated class included) never adds a record
\* to the table of another class.
C27_ListenersPerClass ==
    \A class \in Classes :
        TableOf(class) =
            [i \in DOMAIN DecorationsOn(class) |->
                ListenerRecord(DecorationsOn(class)[i].event,
                               DecorationsOn(class)[i].propertyKey,
                               DescriptorOf(DecorationsOn(class)[i].target,
                                            DecorationsOn(class)[i].propertyKey))]

====
